---- MODULE Spec2Model ----
(***************************************************************************)
(* Model of the course-recommendation application (package recommender).  *)
(*                                                                         *)
(* Nine specifications share one state:                                    *)
(*   ScorerSpec  ml_service.recommend_for_profile called directly on a    *)
(*               catalog and a loaded model drawn from bounded sets;       *)
(*   Spec        the web application: the views of views.py, the model     *)
(*               admin of admin.py and the train command;                  *)
(*   CatalogSpec the catalog import (view and command), the teacher's      *)
(*               course edit and the enrollment and recommendation tables; *)
(*   RoutesSpec  every page route requested by every kind of user;         *)
(*   DataSpec    build_sbm_project.ensure_student_data called directly on  *)
(*               data directories with all, some or none of the files;     *)
(*   RaceSpec    two student_courses requests of one student, handled      *)
(*               query by query at the same time;                          *)
(*   FlagsSpec   the dashboards over profiles that the views and the model *)
(*               admin create, for context_processors.role_flags;          *)
(*   RefreshSpec a student's selections and recommendation refreshes over  *)
(*               tables that also hold records of the model admin;         *)
(*   CycleSpec   the catalog operations followed by a direct call of the   *)
(*               scorer on the catalog that they left.                     *)
(*                                                                         *)
(* Strings that the code parses (tags, interests) are sequences of         *)
(* one-character strings, so that split(",") and strip() are computed.     *)
(* Scores are exact rationals <<num, den>> with den > 0, where the code    *)
(* uses Python floats.                                                     *)
(***************************************************************************)
EXTENDS Integers, Sequences, FiniteSets, TLC

VARIABLES
    courses,      \* Course table: the set of existing course codes
    kind,         \* Course.kind, by code
    tags,         \* Course.tags, by code (a string)
    prereq,       \* Course.prerequisites, by code (a set of codes)
    model,        \* the model artifact on disk: NoModel or [labels, proba]
    call,         \* arguments of the last direct call of recommend_for_profile
    ret,          \* what that call returned or raised
    profiles,     \* StudentProfile table: the number of rows of each user
    interests,    \* StudentProfile.interests, by user (a string)
    enrollments,  \* StudentCourseEnrollment table: records [student, course, status]
    recs,         \* Recommendation table: by student, a sequence of [code, score]
    resp,         \* the response to the last web request
    data_files,   \* data/students_current.csv, students_new.csv, student_enrollments.csv
    ensured,      \* what the last direct call of ensure_student_data returned
    inflight      \* the student_courses requests that are being handled, by step

vars == <<courses, kind, tags, prereq, model, call, ret,
          profiles, interests, enrollments, recs, resp, data_files, ensured,
          inflight>>

catalogVars == <<courses, kind, tags, prereq>>
webVars == <<profiles, interests, enrollments, recs, resp>>
dataVars == <<data_files, ensured>>

----------------------------------------------------------------------------
(* Bounds and sample values *)

\* a class probability of predict_proba is an integer 1..MaxP, in units of a
\* common denominator; model.proba is the vector for the student of the call
MaxP == 2
\* top_k ranges over -1..MaxTopK
MaxTopK == 3

Codes == {"A", "B", "C"}
\* a class label of the model with no course in the catalog
ExtraLabel == "X"

Elective == "elective"      \* "вибіркова"
Mandatory == "mandatory"    \* "обов'язкова"
Kinds == {Elective, Mandatory}

\* accounts: one per group, a superuser and a user without a group; "anon" is
\* the anonymous user of a request without a session
Users == {"stu", "tea", "adm", "root", "guest", "anon"}
Authenticated == Users \ {"anon"}

NoModel == [labels |-> <<>>, proba |-> <<>>, exists |-> FALSE]

\* strings, as sequences of characters: "", "ai", "a", "ai, b", " b ,,a"
StrEmpty == <<>>
StrAi == <<"a", "i">>
StrA == <<"a">>
StrAiB == <<"a", "i", ",", " ", "b">>
StrBA == <<" ", "b", " ", ",", ",", "a">>

InterestStrings == {StrEmpty, StrA, StrBA}

----------------------------------------------------------------------------
(* Python helpers *)

Min(a, b) == IF a <= b THEN a ELSE b
Max(a, b) == IF a >= b THEN a ELSE b

\* faulty variant: the last element is left out
ToSet_DropLast(s) == {s[i] : i \in 1..(Len(s) - 1)}
\* set(list)
ToSet(s) == {s[i] : i \in 1..Len(s)}

RECURSIVE SumOver(_, _)
SumOver(f, S) ==
    IF S = {} THEN 0
    ELSE LET x == CHOOSE y \in S : TRUE IN f[x] + SumOver(f, S \ {x})

\* str.split(sep): the substrings between the separators, empty ones included
RECURSIVE SplitFrom(_, _, _, _, _)
SplitFrom(s, sep, i, cur, acc) ==
    IF i > Len(s) THEN Append(acc, cur)
    ELSE IF s[i] = sep THEN SplitFrom(s, sep, i + 1, <<>>, Append(acc, cur))
    ELSE SplitFrom(s, sep, i + 1, Append(cur, s[i]), acc)

Split(s, sep) == SplitFrom(s, sep, 1, <<>>, <<>>)

\* str.strip(): leading and trailing blanks removed
RECURSIVE LStrip(_)
LStrip(s) == IF s # <<>> /\ Head(s) = " " THEN LStrip(Tail(s)) ELSE s

RECURSIVE RStrip(_)
RStrip(s) ==
    IF s # <<>> /\ s[Len(s)] = " " THEN RStrip(SubSeq(s, 1, Len(s) - 1)) ELSE s

Strip(s) == RStrip(LStrip(s))

----------------------------------------------------------------------------
(* ml_service.py: the recommendation scorer *)

\* Optional values: None is the empty tuple, an average is <<sum, count>>
NoneVal == <<>>

\* scores are rationals <<num, den>> in lowest terms, den > 0
RECURSIVE GCD(_, _)
GCD(a, b) == IF b = 0 THEN a ELSE GCD(b, a % b)

Rat(num, den) == LET g == GCD(num, den) IN <<num \div g, den \div g>>

RatLess(a, b) == a[1] * b[2] < b[1] * a[2]
RatEq(a, b) == a[1] * b[2] = b[1] * a[2]
RatLeq(a, b) == a[1] * b[2] <= b[1] * a[2]

\* {t.strip() for t in (s or "").split(",") if t.strip()}
TagSet(s) == {Strip(t) : t \in ToSet(Split(s, ","))} \ {<<>>}

\* load_model: (None, None) when the artifact file does not exist
load_model == IF model.exists THEN model ELSE NoModel

\* the average of the grades recorded for codes, None when there is none
avg_grade_for_codes(codes, taken_grades) ==
    LET have == codes \cap DOMAIN taken_grades
    IN  IF have = {} THEN NoneVal
        ELSE <<SumOver(taken_grades, have), Cardinality(have)>>

\* the average over every recorded grade, None when there is none
overall_avg_grade(taken_grades) ==
    LET have == DOMAIN taken_grades
    IN  IF have = {} THEN NoneVal
        ELSE <<SumOver(taken_grades, have), Cardinality(have)>>

\* faulty variant: the kind of the course is not looked at
IsElectiveCourse_AnyKind(code) == code \in courses

\* courses.get(code) exists and course.kind == "вибіркова"
IsElectiveCourse(code) == code \in courses /\ kind[code] = Elective

\* faulty variant: taken codes are not skipped
AlreadyTaken_Never(code, taken_set) == FALSE

AlreadyTaken(code, taken_set) == code \in taken_set

\* faulty variant: one taken prerequisite is enough
PrereqsSatisfied_Any(prereqs, taken_set) ==
    prereqs = {} \/ prereqs \cap taken_set # {}

\* prereqs.issubset(taken_set)
PrereqsSatisfied(prereqs, taken_set) == prereqs \subseteq taken_set

\* faulty variant: a course that lists itself is not held to it
PrereqsOf_IgnoresSelf(code) ==
    IF code \in courses THEN prereq[code] \ {code} ELSE {}
\* prereq_map.get(code, set())
PrereqsOf(code) == IF code \in courses THEN prereq[code] ELSE {}

\* in hundredths: 1.15 when a course tag is one of the interests, else 1.0
InterestBonusPct == 115
NoBonusPct == 100
\* faulty variant: the bonus for any tagged course of a student with interests
InterestWeight_AnyTags(course_tags, interest_set) ==
    IF course_tags # {} /\ interest_set # {} THEN InterestBonusPct ELSE NoBonusPct

InterestWeight(course_tags, interest_set) ==
    IF course_tags \cap interest_set # {} THEN InterestBonusPct ELSE NoBonusPct

\* faulty variant: always the overall average
PrereqAvg_Overall(prereqs, taken_grades) == overall_avg_grade(taken_grades)

\* prereq_avg, falling back to the overall average
PrereqAvg(prereqs, taken_grades) ==
    LET a == avg_grade_for_codes(prereqs, taken_grades)
    IN  IF a = NoneVal THEN overall_avg_grade(taken_grades) ELSE a

\* 1.0 without an average, else 0.75 + (avg / 100) * 0.5, with avg = sum / count
GradeWeight(prereq_avg) ==
    IF prereq_avg = NoneVal THEN <<1, 1>>
    ELSE Rat(150 * prereq_avg[2] + prereq_avg[1], 200 * prereq_avg[2])

\* base_score * interest_weight * grade_weight
FinalScore(p, interest_weight, grade_weight) ==
    LET w == Rat(interest_weight, 100)
    IN  Rat(p * w[1] * grade_weight[1], w[2] * grade_weight[2])

\* the score that the loop appends for an eligible code with probability p
ScoreOf(code, p, interest_set, taken_grades) ==
    FinalScore(p,
               InterestWeight(TagSet(tags[code]), interest_set),
               GradeWeight(PrereqAvg(PrereqsOf(code), taken_grades)))

\* the loop's three `continue` conditions, negated
Eligible(code, taken_set) ==
    /\ IsElectiveCourse(code)
    /\ ~AlreadyTaken(code, taken_set)
    /\ PrereqsSatisfied(PrereqsOf(code), taken_set)

\* for label, p in zip(labels, proba): ... results.append((code, score))
RECURSIVE ScoreLabels(_, _, _, _, _, _)
ScoreLabels(labels, proba, i, taken_set, interest_set, taken_grades) ==
    IF i > Min(Len(labels), Len(proba)) THEN <<>>
    ELSE LET code == labels[i]
             rest == ScoreLabels(labels, proba, i + 1, taken_set, interest_set,
                                 taken_grades)
         IN  IF Eligible(code, taken_set)
             THEN <<[code |-> code,
                     score |-> ScoreOf(code, proba[i], interest_set, taken_grades)]>>
                  \o rest
             ELSE rest

\* faulty variant: an element goes before the elements with an equal score
RECURSIVE InsertDesc_Unstable(_, _)
InsertDesc_Unstable(sorted, e) ==
    IF sorted = <<>> THEN <<e>>
    ELSE IF RatLeq(Head(sorted).score, e.score) THEN <<e>> \o sorted
    ELSE <<Head(sorted)>> \o InsertDesc_Unstable(Tail(sorted), e)

\* list.sort(key=score, reverse=True) is stable: an element goes after every
\* element whose score is not smaller than its own
RECURSIVE InsertDesc(_, _)
InsertDesc(sorted, e) ==
    IF sorted = <<>> THEN <<e>>
    ELSE IF RatLess(Head(sorted).score, e.score) THEN <<e>> \o sorted
    ELSE <<Head(sorted)>> \o InsertDesc(Tail(sorted), e)

RECURSIVE SortDescFrom(_, _, _)
SortDescFrom(results, i, sorted) ==
    IF i > Len(results) THEN sorted
    ELSE SortDescFrom(results, i + 1, InsertDesc(sorted, results[i]))

\* faulty variant: the results stay in label order
SortByScoreDesc_Unsorted(results) == results

SortByScoreDesc(results) == SortDescFrom(results, 1, <<>>)

\* faulty variant: one element too many
SliceTo_OneMore(results, top_k) ==
    SubSeq(results, 1,
           IF top_k >= 0 THEN Min(top_k + 1, Len(results))
           ELSE Max(0, Len(results) + top_k))

\* results[:top_k]; a negative top_k drops the last -top_k elements
SliceTo(results, top_k) ==
    SubSeq(results, 1,
           IF top_k >= 0 THEN Min(top_k, Len(results))
           ELSE Max(0, Len(results) + top_k))

\* recommend_for_profile(student, taken_codes, taken_grades, top_k)
recommend_for_profile(student_interests, taken_codes, taken_grades, top_k) ==
    LET m == load_model
    IN  IF ~m.exists THEN [raised |-> "RuntimeError", list |-> <<>>]
        ELSE [raised |-> "",
              list |-> SliceTo(SortByScoreDesc(
                           ScoreLabels(m.labels, m.proba, 1, ToSet(taken_codes),
                                       TagSet(student_interests), taken_grades)),
                           top_k)]

----------------------------------------------------------------------------
(* build_sbm_project.py: the catalog file *)

\* sep.join(list)
RECURSIVE Join(_, _)
Join(list, sep) ==
    IF list = <<>> THEN <<>>
    ELSE IF Len(list) = 1 THEN list[1]
    ELSE list[1] \o <<sep>> \o Join(Tail(list), sep)

\* [x.strip() for x in s.split("|") if x.strip()], empty when s is blank
PipeList(s) ==
    IF Strip(s) = <<>> THEN <<>>
    ELSE LET parts == Split(s, "|")
             stripped == [i \in 1..Len(parts) |-> Strip(parts[i])]
         IN  SelectSeq(stripped, LAMBDA x : x # <<>>)

\* course codes are one character long here: the code that a cell text spells
NoCode == "?"
CodeOf(text) == IF Len(text) = 1 THEN text[1] ELSE NoCode

\* a row of courses_catalog.csv: prerequisites and tags are "|"-separated
CatalogRow(code, k, semester, prerequisites, tagstr) ==
    [code |-> code, kind |-> k, semester |-> semester,
     prerequisites |-> prerequisites, tags |-> tagstr]

\* "A| B", "X|C", "ai|b"
StrPipeAB == <<"A", "|", " ", "B">>
StrPipeXC == <<"X", "|", "C">>
StrPipeAiB == <<"a", "i", "|", "b">>

CatalogABC ==
    << CatalogRow("A", Mandatory, 1, StrEmpty, StrAi),
       CatalogRow("B", Elective, 1, <<"A">>, StrPipeAiB),
       CatalogRow("C", Elective, 3, StrPipeAB, StrEmpty) >>
CatalogBC ==
    << CatalogRow("B", Elective, 1, StrPipeXC, <<"b">>),
       CatalogRow("C", Mandatory, 1, StrEmpty, StrA) >>
\* a catalog whose codes are numbers
Catalog12 ==
    << CatalogRow("1", Mandatory, 1, StrEmpty, StrAi),
       CatalogRow("2", Elective, 1, StrEmpty, StrA) >>

\* a catalog in which A and B require each other
CatalogLoop ==
    << CatalogRow("A", Elective, 1, <<"B">>, StrAi),
       CatalogRow("B", Elective, 1, <<"A">>, StrEmpty) >>

\* the catalog files with codes among Codes
CatalogFiles == {CatalogABC, CatalogBC}
\* the catalog files that the train command may find
DataCatalogFiles == {CatalogABC, CatalogBC, Catalog12}

\* load_catalog: the Course objects of the rows, in file order
load_catalog(file) ==
    [i \in 1..Len(file) |->
        LET prerequisites == PipeList(file[i].prerequisites)
        IN  [code |-> file[i].code,
             kind |-> file[i].kind,
             semester |-> file[i].semester,
             prerequisites |->
                 [j \in 1..Len(prerequisites) |-> CodeOf(prerequisites[j])],
             tags |-> PipeList(file[i].tags)]]

\* load_catalog of each sample file, computed once
LoadedCatalogs ==
    [file \in DataCatalogFiles \cup {CatalogLoop} |-> load_catalog(file)]

----------------------------------------------------------------------------
(* build_sbm_project.py: the student data files *)

\* n_current and n_new of generate_student_profiles(320, 25), scaled down
NCurrent == 1
NNew == 1
\* ensure_student_data is called at most MaxCalls times in a behaviour
MaxCalls == 3

\* a cell of a DataFrame: the Python type of the value and its text
StrCell(text) == [py |-> "str", text |-> text]
IntCell(text) == [py |-> "int", text |-> text]
FloatCell(text) == [py |-> "float", text |-> text]

\* a DataFrame; None is NoFrame
Frame(columns, rows) == [none |-> FALSE, columns |-> columns, rows |-> rows]
NoFrame == [none |-> TRUE]

DigitChars == <<"0", "1", "2", "3", "4", "5", "6", "7", "8", "9">>
Digits == ToSet(DigitChars)
DigitOf(n) == DigitChars[n + 1]
IntOfDigit(d) == (CHOOSE i \in 1..10 : DigitChars[i] = d) - 1

IsIntText(t) == t # <<>> /\ \A i \in 1..Len(t) : t[i] \in Digits
IsFloatText(t) ==
    \E d \in 2..(Len(t) - 1) :
        /\ t[d] = "."
        /\ \A i \in (1..Len(t)) \ {d} : t[i] \in Digits

\* str(int(t))
RECURSIVE NormInt(_)
NormInt(t) == IF Len(t) > 1 /\ Head(t) = "0" THEN NormInt(Tail(t)) ELSE t

\* DataFrame.to_csv(path, index=False): the header and the text of every cell
NoFile == [exists |-> FALSE]
to_csv(frame) ==
    [exists |-> TRUE,
     header |-> frame.columns,
     lines |-> [i \in 1..Len(frame.rows) |->
                   [j \in 1..Len(frame.columns) |-> frame.rows[i][j].text]]]

\* pd.read_csv(path): a column whose cells all read as integers is an integer
\* column, one whose cells all read as numbers a float column, any other a
\* column of strings
ColumnType(file, j) ==
    LET texts == {file.lines[i][j] : i \in 1..Len(file.lines)}
    IN  IF texts # {} /\ \A t \in texts : IsIntText(t) THEN "int"
        ELSE IF texts # {} /\ \A t \in texts : IsIntText(t) \/ IsFloatText(t)
        THEN "float"
        ELSE "str"

ReadCell(type, t) ==
    IF type = "int" THEN IntCell(NormInt(t))
    ELSE IF type = "float"
    THEN FloatCell(IF IsIntText(t) THEN NormInt(t) \o <<".", "0">> ELSE t)
    ELSE StrCell(t)

read_csv(file) ==
    Frame(file.header,
          [i \in 1..Len(file.lines) |->
              [j \in 1..Len(file.header) |->
                  ReadCell(ColumnType(file, j), file.lines[i][j])]])

StudentColumns ==
    <<"student_id", "status", "year", "math_level", "prog_level", "ai_level",
      "soft_level", "interests">>
EnrollmentColumns == <<"student_id", "course_code">>

StatusText(status) ==
    IF status = "current" THEN <<"c", "u", "r", "r", "e", "n", "t">>
    ELSE <<"n", "e", "w">>
StatusUpper(status) ==
    IF status = "current" THEN <<"C", "U", "R", "R", "E", "N", "T">>
    ELSE <<"N", "E", "W">>

\* what the random generators draw: the year of each current student, the
\* skill level and the interests of every student, and the electives that the
\* draw of pick_courses_for_student lets a student take
YearSamples == {1, 2, 3}
LevelSample == <<"0", ".", "5">>
InterestSample == <<"a", "i", ",", "u", "x">>
Lucks == {{}, {"C"}, {"B", "2"}, {"B", "C", "2"}}
Draws == [years : [1..NCurrent -> YearSamples], luck : Lucks]

\* make_student: f"{status.upper()}_{idx:04d}" and the other columns
make_student(idx, status, year) ==
    << StrCell(StatusUpper(status) \o <<"_", "0", "0", "0", DigitOf(idx)>>),
       StrCell(StatusText(status)),
       IntCell(<<DigitOf(year)>>),
       FloatCell(LevelSample), FloatCell(LevelSample),
       FloatCell(LevelSample), FloatCell(LevelSample),
       StrCell(InterestSample) >>

generate_student_profiles(n_current, n_new, draws) ==
    [current |-> Frame(StudentColumns,
                       [i \in 1..n_current |->
                           make_student(i, "current", draws.years[i])]),
     new |-> Frame(StudentColumns,
                   [i \in 1..n_new |-> make_student(i, "new", 1)])]

\* pick_courses_for_student: the mandatory courses up to the student's
\* semester, then the electives up to it that the draw lets the student take
pick_courses_for_student(student, catalog, draws) ==
    LET current_sem == IntOfDigit(student[3].text[1]) * 2
        mandatory == SelectSeq(catalog, LAMBDA c :
                        c.kind = Mandatory /\ c.semester <= current_sem)
        taken_electives == SelectSeq(catalog, LAMBDA c :
                        /\ c.kind = Elective /\ c.semester <= current_sem
                        /\ c.code \in draws.luck)
        both == mandatory \o taken_electives
    IN  [i \in 1..Len(both) |-> both[i].code]

\* build_enrollments: one record per student and passed course
RECURSIVE EnrollmentRecords(_, _, _, _)
EnrollmentRecords(rows, i, catalog, draws) ==
    IF i > Len(rows) THEN <<>>
    ELSE LET passed == pick_courses_for_student(rows[i], catalog, draws)
         IN  [k \in 1..Len(passed) |->
                 <<rows[i][1], StrCell(<<passed[k]>>)>>]
             \o EnrollmentRecords(rows, i + 1, catalog, draws)

build_enrollments(students, catalog, draws) ==
    LET records == EnrollmentRecords(students.rows, 1, catalog, draws)
    IN  Frame(IF records = <<>> THEN <<>> ELSE EnrollmentColumns, records)

save_students_to_data(current, new, enroll) ==
    [current |-> to_csv(current), new |-> to_csv(new),
     enroll |-> to_csv(enroll)]

\* pd.read_csv(path) if os.path.exists(path) else None
load_if_exists(file) == IF file.exists THEN read_csv(file) ELSE NoFrame

load_students_from_data(files) ==
    [current |-> load_if_exists(files.current),
     new |-> load_if_exists(files.new),
     enroll |-> load_if_exists(files.enroll)]

\* ensure_student_data: what it returns, and the data files after it
ensure_student_data(files, catalog, draws) ==
    LET loaded == load_students_from_data(files)
        students == generate_student_profiles(NCurrent, NNew, draws)
        enroll == build_enrollments(students.current, catalog, draws)
        \* a loaded frame is None exactly when its file does not exist
        any_none == ~(files.current.exists /\ files.new.exists
                         /\ files.enroll.exists)
    IN  IF any_none
        THEN [current |-> students.current, new |-> students.new,
              enroll |-> enroll, generated |-> TRUE, saved |-> TRUE,
              files |-> save_students_to_data(students.current, students.new,
                                              enroll)]
        ELSE [current |-> loaded.current, new |-> loaded.new,
              enroll |-> loaded.enroll, generated |-> FALSE, saved |-> FALSE,
              files |-> files]

NoDataFiles == [current |-> NoFile, new |-> NoFile, enroll |-> NoFile]
NoEnsured == [calls |-> 0, generated |-> FALSE, current |-> NoFrame,
              new |-> NoFrame, enroll |-> NoFrame, wrote |-> FALSE]

\* the student_courses requests that are handled at the same time
Requests == {1, 2}
\* the position of a request in student_courses and what it carries
Request(pc, user, selection, todo) ==
    [pc |-> pc, user |-> user, selection |-> selection, todo |-> todo]
NoRequests == [r \in Requests |-> Request("none", "", {}, {})]

----------------------------------------------------------------------------
(* ScorerSpec: recommend_for_profile on bounded inputs *)

NoCall == [made |-> FALSE, interests |-> <<>>, taken |-> <<>>,
           grades |-> [c \in {} |-> 0], top_k |-> 0]
NoRet == [raised |-> "", list |-> <<>>]

EmptyGrades == [c \in {} |-> 0]

KindMaps ==
    {k \in [Codes -> Kinds] :
        k["B"] = Elective /\ (k["A"] = Elective \/ k["C"] = Elective)}

NoPrereqs == [c \in Codes |-> {}]
PrereqMaps ==
    { NoPrereqs,
      [NoPrereqs EXCEPT !["C"] = {"A"}],
      [NoPrereqs EXCEPT !["B"] = {"A"}, !["C"] = {"A", "B"}],
      [NoPrereqs EXCEPT !["A"] = {"C"}, !["C"] = {"C"}] }

TagMaps ==
    { [c \in Codes |-> IF c = "A" THEN StrAi ELSE IF c = "B" THEN StrAiB ELSE StrBA],
      [c \in Codes |-> IF c = "A" THEN StrEmpty ELSE IF c = "B" THEN StrBA ELSE StrAi] }

\* model.classes_ is sorted
LabelLists == {<<"A", "B", "C">>, <<"B", "C", ExtraLabel>>}

Models ==
    {NoModel} \cup
    {[labels |-> l, proba |-> p, exists |-> TRUE] :
        l \in LabelLists, p \in [1..3 -> 1..MaxP]}

TakenLists ==
    {<<>>, <<"A">>, <<"A", "B">>, <<"A", "C">>, <<"C", "B", "A", "A">>,
     <<ExtraLabel, "C">>}

GradeMaps ==
    { EmptyGrades,
      [c \in {"A", "B"} |-> IF c = "A" THEN 0 ELSE 60],
      [c \in Codes |-> IF c = "A" THEN 60 ELSE IF c = "B" THEN 100 ELSE 0] }

NoResponse ==
    [route |-> "", user |-> "", method |-> "", selection |-> {},
     outcome |-> "", detail |-> <<>>]

WebInit ==
    /\ profiles = [u \in Users |-> 0]
    /\ interests = [u \in Users |-> StrEmpty]
    /\ enrollments = {}
    /\ recs = [u \in Users |-> <<>>]
    /\ resp = NoResponse
    /\ data_files = NoDataFiles
    /\ ensured = NoEnsured
    /\ inflight = NoRequests

ScorerInit ==
    /\ courses = Codes
    /\ kind \in KindMaps
    /\ tags \in TagMaps
    /\ prereq \in PrereqMaps
    /\ model \in Models
    /\ call = NoCall
    /\ ret = NoRet
    \* the tables hold a student with a completed course and a stored
    \* recommendation
    /\ profiles = [u \in Users |-> IF u = "stu" THEN 1 ELSE 0]
    /\ interests = [u \in Users |-> IF u = "stu" THEN StrA ELSE StrEmpty]
    /\ enrollments = {[student |-> "stu", course |-> "A", status |-> "completed"]}
    /\ recs = [u \in Users |->
                  IF u = "stu" THEN <<[code |-> "B", score |-> <<1, 2>>]>> ELSE <<>>]
    /\ resp = NoResponse
    /\ data_files = NoDataFiles
    /\ ensured = NoEnsured
    /\ inflight = NoRequests

\* faulty variant: the call stores what it returns as the recommendations of
\* the students
Recommend_StoresResult(i, t, g, k) ==
    /\ ~call.made
    /\ call' = [made |-> TRUE, interests |-> i, taken |-> t, grades |-> g,
                top_k |-> k]
    /\ ret' = recommend_for_profile(i, t, g, k)
    /\ recs' = [u \in Users |->
                   IF profiles[u] > 0 THEN recommend_for_profile(i, t, g, k).list
                   ELSE recs[u]]
    /\ UNCHANGED <<catalogVars, model, profiles, interests, enrollments, resp,
                   dataVars, inflight>>
\* a direct call of recommend_for_profile, one per behaviour
Recommend(i, t, g, k) ==
    /\ ~call.made
    /\ call' = [made |-> TRUE, interests |-> i, taken |-> t, grades |-> g,
                top_k |-> k]
    /\ ret' = recommend_for_profile(i, t, g, k)
    /\ UNCHANGED <<catalogVars, model, webVars, dataVars, inflight>>

ScorerNext ==
    \E i \in InterestStrings, t \in TakenLists, g \in GradeMaps,
       k \in -1..MaxTopK : Recommend(i, t, g, k)

ScorerSpec == ScorerInit /\ [][ScorerNext]_vars

----------------------------------------------------------------------------
(* models.py, forms.py: what the views rely on *)

\* the fields of StudentCourseEnrollment
EnrollmentFields == {"id", "student", "course", "status"}

\* what StudentCoursesForm defines beside the members of forms.Form
StudentCoursesFormMembers == {"courses", "prereq_map", "clean_courses"}

\* QuerySet.values_list raises FieldError for a name that is no field
ValuesListRaises(names) == ~(names \subseteq EnrollmentFields)

\* sorted(codes), in the order of the code strings
CodeOrder == <<"A", "B", "C", "X">>
SortCodes(S) == SelectSeq(CodeOrder, LAMBDA c : c \in S)

\* StudentCoursesForm.clean_courses: (code, missing prerequisites) of every
\* selected code with a prerequisite that is not selected, in sorted order
InvalidSelections(selected_codes, prereq_map) ==
    LET missing(code) == SortCodes(prereq_map[code] \ selected_codes)
        bad == {code \in selected_codes : missing(code) # <<>>}
        codes == SortCodes(bad)
    IN  [i \in 1..Len(codes) |-> <<codes[i], missing(codes[i])>>]

----------------------------------------------------------------------------
(* views.py: the access predicates *)

UserGroups ==
    [u \in Users |->
        IF u = "stu" THEN {"Student"} ELSE IF u = "tea" THEN {"Teacher"}
        ELSE IF u = "adm" THEN {"Admin"} ELSE {}]
Superusers == {"root"}

\* login_required: the request carries the session of an account
login_required(user) == user \in Authenticated

is_student(user) ==
    user \in Superusers \/ UserGroups[user] \cap {"Student", "Admin"} # {}
is_teacher(user) ==
    user \in Superusers \/ UserGroups[user] \cap {"Teacher", "Admin"} # {}
\* faulty variant: the test of the teacher area guards the admin area
is_admin_AsTeacher(user) ==
    user \in Superusers \/ UserGroups[user] \cap {"Teacher", "Admin"} # {}
is_admin(user) == user \in Superusers \/ "Admin" \in UserGroups[user]

\* StudentProfile.objects.get_or_create(user=user): the table after the call
HasProfile(user) == profiles[user] > 0
\* faulty variant: objects.create in place of get_or_create
ensure_student_profile_AlwaysCreates(user) ==
    [profiles EXCEPT ![user] = profiles[user] + 1]
ensure_student_profile(user) ==
    IF HasProfile(user) THEN profiles
    ELSE [profiles EXCEPT ![user] = profiles[user] + 1]

\* context_processors.py, role_flags: the flags that every template gets
role_flags(user) ==
    IF user \notin Authenticated
    THEN [is_student |-> FALSE, is_teacher |-> FALSE, is_admin |-> FALSE]
    ELSE IF user \in Superusers
    THEN [is_student |-> TRUE, is_teacher |-> TRUE, is_admin |-> TRUE]
    ELSE LET group_names == UserGroups[user]
             admin == "Admin" \in group_names
             has_student_profile == HasProfile(user)
         IN  [is_admin |-> admin,
              is_teacher |-> admin \/ "Teacher" \in group_names,
              is_student |-> admin \/ "Student" \in group_names
                                \/ has_student_profile]

----------------------------------------------------------------------------
(* views.py: the requests *)

Response(route, user, method, selection, outcome, detail) ==
    [route |-> route, user |-> user, method |-> method, selection |-> selection,
     outcome |-> outcome, detail |-> detail]

\* user_passes_test sends a user who fails the test to the login page
LoginRedirect(route, user, method, selection) ==
    /\ resp' = Response(route, user, method, selection, "login_redirect", <<>>)
    /\ UNCHANGED <<catalogVars, model, call, ret, dataVars, inflight, profiles, interests,
                   enrollments, recs>>

\* the codes of the student's completed enrollments
CompletedCodes(student) ==
    {e.course : e \in {x \in enrollments :
                          x.student = student /\ x.status = "completed"}}

\* lines 210-222 and 295-307: the stored records become the scorer's list
StoredAfterRefresh(student, result) ==
    [recs EXCEPT ![student] = SelectSeq(result.list, LAMBDA e : e.code \in courses)]

\* student_recommendations; no enrollment carries a grade, so the grades
\* handed to the scorer are empty
StudentRecommendations(user) ==
    LET route == "student_recommendations"
        result == recommend_for_profile(interests[user],
                                        SortCodes(CompletedCodes(user)),
                                        EmptyGrades, 5)
    IN  IF ~(login_required(user) /\ is_student(user)) THEN LoginRedirect(route, user, "GET", {})
        ELSE
          /\ profiles' = ensure_student_profile(user)
          /\ UNCHANGED <<catalogVars, model, call, ret, dataVars, inflight, interests, enrollments>>
          /\ IF ValuesListRaises({"grade"})
             THEN /\ resp' = Response(route, user, "GET", {}, "server_error",
                                      "FieldError")
                  /\ UNCHANGED recs
             ELSE IF result.raised = "RuntimeError"
             THEN /\ resp' = Response(route, user, "GET", {}, "rendered",
                                      "model_not_trained")
                  /\ UNCHANGED recs
             ELSE /\ recs' = StoredAfterRefresh(user, result)
                  /\ resp' = Response(route, user, "GET", {}, "rendered", "")

\* teacher_student_recommendations
TeacherStudentRecommendations(user, student) ==
    LET route == "teacher_student_recommendations"
        result == recommend_for_profile(interests[student],
                                        SortCodes(CompletedCodes(student)),
                                        EmptyGrades, 5)
    IN  IF ~(login_required(user) /\ is_teacher(user)) THEN LoginRedirect(route, user, "GET", {})
        ELSE
          /\ UNCHANGED <<catalogVars, model, call, ret, dataVars, inflight, profiles, interests,
                         enrollments>>
          /\ IF ~HasProfile(student)
             THEN /\ resp' = Response(route, user, "GET", {}, "not_found", <<>>)
                  /\ UNCHANGED recs
             ELSE IF ValuesListRaises({"grade"})
             THEN /\ resp' = Response(route, user, "GET", {}, "server_error",
                                      "FieldError")
                  /\ UNCHANGED recs
             ELSE IF result.raised = "RuntimeError"
             THEN /\ resp' = Response(route, user, "GET", {}, "server_error",
                                      "RuntimeError")
                  /\ UNCHANGED recs
             ELSE /\ recs' = StoredAfterRefresh(student, result)
                  /\ resp' = Response(route, user, "GET", {}, "rendered", "")

\* faulty variant: the view reads neither the field grade nor
\* form.cleaned_grades, so a valid selection is stored and nothing else is
\* touched
StudentCourses_StoresSelection(user, selection) ==
    LET route == "student_courses"
        invalid == InvalidSelections(selection, prereq)
        kept == {e \in enrollments : e.student # user \/ e.course \in selection}
    IN  IF ~(login_required(user) /\ is_student(user)) THEN LoginRedirect(route, user, "POST", selection)
        ELSE
          /\ profiles' = ensure_student_profile(user)
          /\ UNCHANGED <<catalogVars, model, call, ret, dataVars, inflight, interests, recs>>
          /\ IF ~(selection \subseteq courses)
             THEN /\ resp' = Response(route, user, "POST", selection,
                                      "form_error", "invalid_choice")
                  /\ UNCHANGED enrollments
             ELSE IF invalid # <<>>
             THEN /\ resp' = Response(route, user, "POST", selection,
                                      "form_error", invalid)
                  /\ UNCHANGED enrollments
             ELSE /\ enrollments' = kept \cup
                        {[student |-> user, course |-> c, status |-> "completed"] :
                            c \in selection}
                  /\ resp' = Response(route, user, "POST", selection,
                                      "redirect", "")
\* student_courses, a POST of the selected codes: line 133 reads the field
\* grade of the enrollments before the form is built; a valid selection
\* deletes the other enrollments and then reads form.cleaned_grades for the
\* first selected code
StudentCourses(user, selection) ==
    LET route == "student_courses"
        invalid == InvalidSelections(selection, prereq)
        kept == {e \in enrollments : e.student # user \/ e.course \in selection}
    IN  IF ~(login_required(user) /\ is_student(user)) THEN LoginRedirect(route, user, "POST", selection)
        ELSE
          /\ profiles' = ensure_student_profile(user)
          /\ UNCHANGED <<catalogVars, model, call, ret, dataVars, inflight, interests, recs>>
          /\ IF ValuesListRaises({"grade"})
             THEN /\ resp' = Response(route, user, "POST", selection,
                                      "server_error", "FieldError")
                  /\ UNCHANGED enrollments
             ELSE IF ~(selection \subseteq courses)
             THEN /\ resp' = Response(route, user, "POST", selection,
                                      "form_error", "invalid_choice")
                  /\ UNCHANGED enrollments
             ELSE IF invalid # <<>>
             THEN /\ resp' = Response(route, user, "POST", selection,
                                      "form_error", invalid)
                  /\ UNCHANGED enrollments
             ELSE IF selection # {} /\ "cleaned_grades" \notin StudentCoursesFormMembers
             THEN /\ enrollments' = kept
                  /\ resp' = Response(route, user, "POST", selection,
                                      "server_error", "AttributeError")
             ELSE /\ enrollments' = kept \cup
                        {[student |-> user, course |-> c, status |-> "completed"] :
                            c \in selection}
                  /\ resp' = Response(route, user, "POST", selection,
                                      "redirect", "")

\* student_courses handled step by step, for requests that are handled at
\* the same time: the view runs outside a transaction, so every query of it
\* is a step of its own. A sent request passes the decorators, gets the
\* profile and reads the enrollments (lines 127-133); then the form is
\* validated (134-136), the enrollments outside the selection are deleted
\* (139) and one enrollment is updated or created per selected code, in the
\* order of the set (141-147); then the redirect is answered (148-149)
StudentCoursesStep(r) ==
    LET route == "student_courses"
        user == inflight[r].user
        selection == inflight[r].selection
        todo == inflight[r].todo
        invalid == InvalidSelections(selection, prereq)
        kept == {e \in enrollments : e.student # user \/ e.course \in selection}
        At(pc) == [inflight EXCEPT ![r].pc = pc]
        Answer(outcome, detail) == Response(route, user, "POST", selection, outcome, detail)
    IN  /\ inflight[r].pc \in {"sent", "validate", "delete", "update"}
        /\ UNCHANGED <<catalogVars, model, call, ret, dataVars, interests, recs>>
        /\ IF inflight[r].pc = "sent"
           THEN IF ~(login_required(user) /\ is_student(user))
                THEN /\ resp' = Answer("login_redirect", <<>>)
                     /\ inflight' = At("done")
                     /\ UNCHANGED <<profiles, enrollments>>
                ELSE /\ profiles' = ensure_student_profile(user)
                     /\ UNCHANGED enrollments
                     /\ IF ValuesListRaises({"grade"})
                        THEN /\ resp' = Answer("server_error", "FieldError")
                             /\ inflight' = At("failed")
                        ELSE /\ inflight' = At("validate")
                             /\ UNCHANGED resp
           ELSE IF inflight[r].pc = "validate"
           THEN /\ UNCHANGED <<profiles, enrollments>>
                /\ IF ~(selection \subseteq courses)
                   THEN /\ resp' = Answer("form_error", "invalid_choice")
                        /\ inflight' = At("done")
                   ELSE IF invalid # <<>>
                   THEN /\ resp' = Answer("form_error", invalid)
                        /\ inflight' = At("done")
                   ELSE /\ inflight' = At("delete")
                        /\ UNCHANGED resp
           ELSE IF inflight[r].pc = "delete"
           THEN /\ enrollments' = kept
                /\ inflight' = [inflight EXCEPT ![r].pc = "update", ![r].todo = selection]
                /\ UNCHANGED <<profiles, resp>>
           ELSE IF todo = {}
           THEN /\ resp' = Answer("redirect", "")
                /\ inflight' = At("done")
                /\ UNCHANGED <<profiles, enrollments>>
           ELSE IF "cleaned_grades" \notin StudentCoursesFormMembers
           THEN /\ resp' = Answer("server_error", "AttributeError")
                /\ inflight' = At("failed")
                /\ UNCHANGED <<profiles, enrollments>>
           ELSE \E c \in todo :
                  /\ enrollments' =
                        {e \in enrollments : ~(e.student = user /\ e.course = c)}
                        \cup {[student |-> user, course |-> c, status |-> "completed"]}
                  /\ inflight' = [inflight EXCEPT ![r].todo = todo \ {c}]
                  /\ UNCHANGED <<profiles, resp>>

\* a page that only reads: the template is rendered
RenderOnly(route, user) ==
    /\ resp' = Response(route, user, "GET", {}, "rendered", "")
    /\ UNCHANGED <<catalogVars, model, call, ret, dataVars, inflight, profiles, interests,
                   enrollments, recs>>

\* student_dashboard: line 80 reads the field grade of the enrollments
StudentDashboard(user) ==
    LET route == "student_dashboard"
    IN  IF ~(login_required(user) /\ is_student(user)) THEN LoginRedirect(route, user, "GET", {})
        ELSE
          /\ profiles' = ensure_student_profile(user)
          /\ UNCHANGED <<catalogVars, model, call, ret, dataVars, inflight, interests,
                         enrollments, recs>>
          /\ resp' = IF ValuesListRaises({"grade"})
                     THEN Response(route, user, "GET", {}, "server_error",
                                   "FieldError")
                     ELSE Response(route, user, "GET", {}, "rendered", "")

\* forms.py, INTEREST_CHOICES
InterestChoices ==
    { <<"a", "i">>, <<"d", "a", "t", "a">>, <<"w", "e", "b">>,
      <<"s", "y", "s", "t", "e", "m", "s">>,
      <<"s", "e", "c", "u", "r", "i", "t", "y">>,
      <<"m", "a", "n", "a", "g", "e", "m", "e", "n", "t">>,
      <<"u", "x">>, <<"s", "c", "i", "e", "n", "c", "e">> }

\* the interests lists that students post: ["ai"], ["a"]
ProfilePosts == {<<StrAi>>, <<StrA>>}

\* student_profile_view: a POST saves the form when every posted interest is
\* a choice; clean_interests joins the values with ","
StudentProfileView(user, method, posted) ==
    LET route == "student_profile"
    IN  IF ~(login_required(user) /\ is_student(user)) THEN LoginRedirect(route, user, method, {})
        ELSE
          /\ profiles' = ensure_student_profile(user)
          /\ UNCHANGED <<catalogVars, model, call, ret, dataVars, inflight, enrollments,
                         recs>>
          /\ IF method = "POST" /\ ToSet(posted) \subseteq InterestChoices
             THEN /\ interests' = [interests EXCEPT ![user] = Join(posted, ",")]
                  /\ resp' = Response(route, user, method, {}, "redirect", "")
             ELSE IF method = "POST"
             THEN /\ resp' = Response(route, user, method, {}, "form_error",
                                      "invalid_choice")
                  /\ UNCHANGED interests
             ELSE /\ resp' = Response(route, user, method, {}, "rendered", "")
                  /\ UNCHANGED interests

\* teacher_dashboard, teacher_courses, teacher_students: pages that only read
TeacherDashboard(user) ==
    LET route == "teacher_dashboard"
    IN  IF ~(login_required(user) /\ is_teacher(user)) THEN LoginRedirect(route, user, "GET", {})
        ELSE RenderOnly(route, user)

TeacherCourses(user) ==
    LET route == "teacher_courses"
    IN  IF ~(login_required(user) /\ is_teacher(user)) THEN LoginRedirect(route, user, "GET", {})
        ELSE RenderOnly(route, user)

TeacherStudents(user) ==
    LET route == "teacher_students"
    IN  IF ~(login_required(user) /\ is_teacher(user)) THEN LoginRedirect(route, user, "GET", {})
        ELSE RenderOnly(route, user)

\* teacher_course_detail: get_object_or_404 on the code of the path
TeacherCourseDetail(user, code) ==
    LET route == "teacher_course_detail"
    IN  IF ~(login_required(user) /\ is_teacher(user)) THEN LoginRedirect(route, user, "GET", {})
        ELSE IF code \in courses THEN RenderOnly(route, user)
        ELSE /\ resp' = Response(route, user, "GET", {}, "not_found", <<>>)
             /\ UNCHANGED <<catalogVars, model, call, ret, dataVars, inflight, profiles,
                            interests, enrollments, recs>>

\* the course forms that teachers submit
CourseForms ==
    { [code |-> "A", kind |-> Mandatory, prerequisites |-> {}, tags |-> StrAi],
      [code |-> "A", kind |-> Elective, prerequisites |-> {"C"}, tags |-> StrAi],
      [code |-> "B", kind |-> Elective, prerequisites |-> {"A"}, tags |-> StrAiB],
      [code |-> "C", kind |-> Elective, prerequisites |-> {"A", "B"}, tags |-> StrBA],
      [code |-> "C", kind |-> Elective, prerequisites |-> {"C"}, tags |-> StrBA] }

\* teacher_course_edit, a POST of a course form for the course of that code
\* (a new course when there is none); the prerequisites field offers the
\* existing courses
TeacherCourseEdit(user, form) ==
    LET route == "teacher_course_edit"
    IN  IF ~(login_required(user) /\ is_teacher(user)) THEN LoginRedirect(route, user, "POST", {})
        ELSE
          /\ UNCHANGED <<model, call, ret, dataVars, inflight, profiles, interests, enrollments, recs>>
          /\ IF ~(form.prerequisites \subseteq courses)
             THEN /\ resp' = Response(route, user, "POST", {}, "form_error",
                                      "invalid_choice")
                  /\ UNCHANGED catalogVars
             ELSE /\ courses' = courses \cup {form.code}
                  /\ kind' = [kind EXCEPT ![form.code] = form.kind]
                  /\ tags' = [tags EXCEPT ![form.code] = form.tags]
                  /\ prereq' = [prereq EXCEPT ![form.code] = form.prerequisites]
                  /\ resp' = Response(route, user, "POST", {}, "redirect", "")

\* the models that training may save, by the data files it reads
TrainedModels ==
    { [labels |-> <<"A", "B", "C">>, proba |-> <<1, 1, 2>>, exists |-> TRUE],
      [labels |-> <<"B", "C", ExtraLabel>>, proba |-> <<2, 1, 1>>, exists |-> TRUE] }

\* the draw of the generators in a training run
TrainDraws == [years |-> [i \in 1..NCurrent |-> 1], luck |-> {"B"}]

\* admin_train_model: a POST runs the train command, which loads the catalog
\* file, ensures the student data files and saves a model artifact
AdminTrainModel(user, method, trained, file, draws) ==
    LET route == "admin_train_model"
        data == ensure_student_data(data_files, LoadedCatalogs[file], draws)
    IN  IF ~(login_required(user) /\ is_admin(user)) THEN LoginRedirect(route, user, method, {})
        ELSE IF method = "POST"
        THEN /\ data_files' = data.files
             /\ model' = trained
             /\ resp' = Response(route, user, method, {}, "redirect", "")
             /\ UNCHANGED <<catalogVars, call, ret, ensured, inflight, profiles, interests,
                            enrollments, recs>>
        ELSE RenderOnly(route, user)

\* admin_dashboard
AdminDashboard(user) ==
    LET route == "admin_dashboard"
    IN  IF ~(login_required(user) /\ is_admin(user)) THEN LoginRedirect(route, user, "GET", {})
        ELSE RenderOnly(route, user)

\* on_delete=CASCADE of StudentCourseEnrollment.course and
\* Recommendation.course: the rows left when the courses of a set are deleted
CascadeEnrollments_Keep(deleted) == enrollments
CascadeEnrollments(deleted) == {e \in enrollments : e.course \notin deleted}

CascadeRecommendations(deleted) ==
    [s \in Users |-> SelectSeq(recs[s], LAMBDA e : e.code \notin deleted)]

\* the last row of a code in the catalog: update_or_create in file order
LastRow(catalog, code) ==
    catalog[CHOOSE i \in 1..Len(catalog) :
                /\ catalog[i].code = code
                /\ \A j \in (i + 1)..Len(catalog) : catalog[j].code # code]

\* import_courses, Command.handle: --wipe deletes every course first; every
\* course of the file is created or updated; then the prerequisites of each
\* are set to those of its prerequisite codes that the file holds
ImportCourses(wipe, file) ==
    LET catalog == LoadedCatalogs[file]
        created == {catalog[i].code : i \in 1..Len(catalog)}
        deleted == IF wipe THEN courses ELSE {}
        kept == courses \ deleted
    IN  /\ courses' = kept \cup created
        /\ kind' = [c \in Codes |->
                       IF c \in created THEN LastRow(catalog, c).kind
                       ELSE IF c \in kept THEN kind[c] ELSE Mandatory]
        /\ tags' = [c \in Codes |->
                       IF c \in created THEN Join(LastRow(catalog, c).tags, ",")
                       ELSE IF c \in kept THEN tags[c] ELSE StrEmpty]
        /\ prereq' = [c \in Codes |->
                       IF c \in created
                       THEN ToSet(LastRow(catalog, c).prerequisites) \cap created
                       ELSE IF c \in kept THEN prereq[c] \ deleted ELSE {}]
        /\ enrollments' = CascadeEnrollments(deleted)
        /\ recs' = CascadeRecommendations(deleted)

\* python manage.py import_courses [--wipe]: the command ends with a line on
\* stdout
ImportCoursesCommand(wipe, file) ==
    /\ ImportCourses(wipe, file)
    /\ resp' = Response("import_courses", "", IF wipe THEN "--wipe" ELSE "", {},
                        "stdout", "imported")
    /\ UNCHANGED <<model, call, ret, dataVars, inflight, profiles, interests>>

\* admin_import_catalog: a POST runs import_courses without --wipe
AdminImportCatalog(user, method, file) ==
    LET route == "admin_import_catalog"
    IN  IF ~(login_required(user) /\ is_admin(user)) THEN LoginRedirect(route, user, method, {})
        ELSE IF method = "POST"
        THEN /\ ImportCourses(FALSE, file)
             /\ resp' = Response(route, user, method, {}, "redirect", "")
             /\ UNCHANGED <<model, call, ret, dataVars, inflight, profiles, interests>>
        ELSE RenderOnly(route, user)

\* models.py, StudentCourseEnrollment.STATUS_CHOICES
StatusChoices == {"completed", "in_progress"}

\* admin.py, StudentCourseEnrollmentAdmin: an enrollment added in the model
\* admin, refused when the student already has one for the course
\* (faulty variant: the pair of student and course is not checked)
AdminAddEnrollment_Duplicates(student, course, status) ==
    /\ HasProfile(student)
    /\ course \in courses
    /\ enrollments' = enrollments \cup
          {[student |-> student, course |-> course, status |-> status]}
    /\ UNCHANGED <<catalogVars, model, call, ret, dataVars, inflight, profiles, interests, recs, resp>>
AdminAddEnrollment(student, course, status) ==
    /\ HasProfile(student)
    /\ course \in courses
    /\ \A e \in enrollments : ~(e.student = student /\ e.course = course)
    /\ enrollments' = enrollments \cup
          {[student |-> student, course |-> course, status |-> status]}
    /\ UNCHANGED <<catalogVars, model, call, ret, dataVars, inflight, profiles, interests, recs, resp>>

\* admin.py, StudentProfileAdmin: a profile added in the model admin for an
\* account that has none (user is a OneToOneField)
AdminAddProfile(user) ==
    /\ user \in Authenticated
    /\ ~HasProfile(user)
    /\ profiles' = [profiles EXCEPT ![user] = profiles[user] + 1]
    /\ UNCHANGED <<catalogVars, model, call, ret, dataVars, inflight, interests,
                   enrollments, recs, resp>>

\* records that the admin adds per student, at most
MaxAdminRecs == 1
\* the score of a record added in the model admin
AdminScore == <<1, 2>>

\* admin.py, RecommendationAdmin: a record added in the model admin
AdminAddRecommendation(student, course) ==
    /\ HasProfile(student)
    /\ course \in courses
    /\ Len(recs[student]) < MaxAdminRecs
    /\ recs' = [recs EXCEPT ![student] =
                    <<[code |-> course, score |-> AdminScore]>> \o recs[student]]
    /\ UNCHANGED <<catalogVars, model, call, ret, dataVars, inflight, profiles, interests,
                   enrollments, resp>>

Init ==
    /\ courses = {}
    /\ kind = [c \in Codes |-> Mandatory]
    /\ tags = [c \in Codes |-> StrEmpty]
    /\ prereq = [c \in Codes |-> {}]
    /\ model = NoModel
    /\ call = NoCall
    /\ ret = NoRet
    /\ WebInit

\* the accounts whose requests and records Spec follows
Accounts == {"stu", "tea", "adm"}

Next ==
    \/ \E u \in Accounts : StudentRecommendations(u)
    \/ \E u \in Accounts, s \in Accounts : TeacherStudentRecommendations(u, s)
    \/ \E u \in Accounts, sel \in SUBSET Codes : StudentCourses(u, sel)
    \/ \E u \in Accounts, f \in CourseForms : TeacherCourseEdit(u, f)
    \/ \E u \in Accounts, m \in TrainedModels :
          AdminTrainModel(u, "POST", m, CatalogABC, TrainDraws)
    \/ \E s \in Accounts, c \in Codes : AdminAddEnrollment(s, c, "completed")

Spec == Init /\ [][Next]_vars

----------------------------------------------------------------------------
(* CatalogSpec: the catalog imports and course edits over stored student data *)

Students == {"stu", "adm"}
SubmittedSelections == {{"A"}, {"A", "B"}}
StoredCodes == {"A", "B"}

CatalogNext ==
    \/ \E u \in Students : StudentDashboard(u)
    \/ \E sel \in SubmittedSelections : StudentCourses("stu", sel)
    \/ \E f \in CourseForms : TeacherCourseEdit("tea", f)
    \/ \E f \in CatalogFiles : AdminImportCatalog("adm", "POST", f)
    \/ \E w \in BOOLEAN, f \in CatalogFiles : ImportCoursesCommand(w, f)
    \/ \E s \in Students, c \in StoredCodes, st \in StatusChoices :
          AdminAddEnrollment(s, c, st)
    \/ \E c \in StoredCodes : AdminAddRecommendation("stu", c)

CatalogSpec == Init /\ [][CatalogNext]_vars

----------------------------------------------------------------------------
(* DataSpec: ensure_student_data called on data directories in which earlier
   runs left all, some or none of the three files *)

DataFileNames == {"current", "new", "enroll"}

\* the files that a run on an empty data directory saves
SavedFiles ==
    {ensure_student_data(NoDataFiles, LoadedCatalogs[f], d).files :
        f \in DataCatalogFiles, d \in Draws}

\* a data directory from which the files of a set of names are gone
Without(files, gone) ==
    [current |-> IF "current" \in gone THEN NoFile ELSE files.current,
     new |-> IF "new" \in gone THEN NoFile ELSE files.new,
     enroll |-> IF "enroll" \in gone THEN NoFile ELSE files.enroll]

DataInit ==
    /\ courses = {}
    /\ kind = [c \in Codes |-> Mandatory]
    /\ tags = [c \in Codes |-> StrEmpty]
    /\ prereq = [c \in Codes |-> {}]
    /\ model = NoModel
    /\ call = NoCall
    /\ ret = NoRet
    /\ profiles = [u \in Users |-> 0]
    /\ interests = [u \in Users |-> StrEmpty]
    /\ enrollments = {}
    /\ recs = [u \in Users |-> <<>>]
    /\ resp = NoResponse
    /\ data_files \in {Without(s, gone) : s \in SavedFiles, gone \in SUBSET DataFileNames}
    /\ ensured = NoEnsured
    /\ inflight = NoRequests

\* a direct call of ensure_student_data(data_dir, catalog)
EnsureStudentData(file, draws) ==
    /\ ensured.calls < MaxCalls
    /\ LET r == ensure_student_data(data_files, LoadedCatalogs[file], draws)
       IN  /\ data_files' = r.files
           /\ ensured' = [calls |-> ensured.calls + 1, generated |-> r.generated,
                          current |-> r.current, new |-> r.new,
                          enroll |-> r.enroll, wrote |-> r.saved]
    /\ UNCHANGED <<catalogVars, model, call, ret, webVars, inflight>>

DataNext ==
    \E f \in DataCatalogFiles, d \in Draws : EnsureStudentData(f, d)

DataSpec == DataInit /\ [][DataNext]_vars

----------------------------------------------------------------------------
(* RoutesSpec: every page route of urls.py, requested by every kind of user *)

Methods == {"GET", "POST"}
TrainedABC == [labels |-> <<"A", "B", "C">>, proba |-> <<1, 1, 2>>, exists |-> TRUE]
FormA == [code |-> "A", kind |-> Mandatory, prerequisites |-> {}, tags |-> StrAi]

RoutesNext ==
    \/ \E u \in Users : StudentDashboard(u)
    \/ \E u \in Users, m \in Methods, p \in ProfilePosts : StudentProfileView(u, m, p)
    \/ \E u \in Users : StudentCourses(u, {"A"})
    \/ \E u \in Users : StudentRecommendations(u)
    \/ \E u \in Users : TeacherDashboard(u)
    \/ \E u \in Users : TeacherCourses(u)
    \/ \E u \in Users : TeacherCourseDetail(u, "A")
    \/ \E u \in Users : TeacherCourseEdit(u, FormA)
    \/ \E u \in Users : TeacherStudents(u)
    \/ \E u \in Users : TeacherStudentRecommendations(u, "stu")
    \/ \E u \in Users : AdminDashboard(u)
    \/ \E u \in Users, m \in Methods :
          AdminTrainModel(u, m, TrainedABC, CatalogABC, TrainDraws)
    \/ \E u \in Users, m \in Methods : AdminImportCatalog(u, m, CatalogBC)

RoutesSpec == Init /\ [][RoutesNext]_vars

----------------------------------------------------------------------------
(* RaceSpec: two course-selection submissions of one student, both valid,
   handled at the same time *)

RacePrereqMaps ==
    { [NoPrereqs EXCEPT !["C"] = {"A"}],
      [NoPrereqs EXCEPT !["B"] = {"A"}, !["C"] = {"A"}] }

\* the sets of codes that hold the prerequisites of each of their codes
ClosedSets(prereq_map) ==
    {S \in SUBSET Codes : \A c \in S : prereq_map[c] \subseteq S}

CompletedRows(student, codes) ==
    {[student |-> student, course |-> c, status |-> "completed"] : c \in codes}

RaceInit ==
    /\ courses = Codes
    /\ kind = [c \in Codes |-> IF c = "A" THEN Mandatory ELSE Elective]
    /\ tags = [c \in Codes |-> StrEmpty]
    /\ prereq \in RacePrereqMaps
    /\ model = NoModel
    /\ call = NoCall
    /\ ret = NoRet
    /\ profiles = [u \in Users |-> IF u = "stu" THEN 1 ELSE 0]
    /\ interests = [u \in Users |-> StrEmpty]
    /\ enrollments \in {CompletedRows("stu", S) : S \in ClosedSets(prereq)}
    /\ recs = [u \in Users |-> <<>>]
    /\ resp = NoResponse
    /\ data_files = NoDataFiles
    /\ ensured = NoEnsured
    /\ inflight \in {[r \in Requests |-> Request("sent", "stu", sel[r], {})] :
                         sel \in [Requests -> ClosedSets(prereq)]}

RaceNext == \E r \in Requests : StudentCoursesStep(r)

RaceSpec == RaceInit /\ [][RaceNext]_vars

----------------------------------------------------------------------------
(* FlagsSpec: the dashboards requested by every kind of user, over profiles
   that the views and the model admin create *)

FlagsNext ==
    \/ \E u \in Users : AdminAddProfile(u)
    \/ \E u \in Users : StudentDashboard(u)
    \/ \E u \in Users : TeacherDashboard(u)
    \/ \E u \in Users : AdminDashboard(u)

FlagsSpec == Init /\ [][FlagsNext]_vars

----------------------------------------------------------------------------
(* CycleSpec: the catalog operations, then a direct call of the scorer on
   the catalog that they left *)

CycleTakenLists ==
    {<<>>, <<"A">>, <<"C">>, <<"A", "B">>, <<"A", "C">>, <<"A", "B", "C">>}

CycleNext ==
    \/ ~call.made /\ \E f \in CourseForms : TeacherCourseEdit("tea", f)
    \/ ~call.made /\ \E w \in BOOLEAN, f \in CatalogFiles \cup {CatalogLoop} :
                         ImportCoursesCommand(w, f)
    \/ ~call.made /\ \E m \in TrainedModels :
                         AdminTrainModel("adm", "POST", m, CatalogABC, TrainDraws)
    \/ \E t \in CycleTakenLists : Recommend(StrA, t, EmptyGrades, MaxTopK)

CycleSpec == Init /\ [][CycleNext]_vars

----------------------------------------------------------------------------
(* RefreshSpec: a student's course selections and recommendation refreshes
   over tables that also hold records added in the model admin *)

RefreshNext ==
    \/ ImportCoursesCommand(FALSE, CatalogABC)
    \/ AdminTrainModel("adm", "POST", TrainedABC, CatalogABC, TrainDraws)
    \/ StudentDashboard("stu")
    \/ \E c \in Codes : AdminAddEnrollment("stu", c, "completed")
    \/ \E c \in Codes : AdminAddRecommendation("stu", c)
    \/ \E sel \in SUBSET Codes : StudentCourses("stu", sel)
    \/ StudentRecommendations("stu")
    \/ TeacherStudentRecommendations("tea", "stu")

RefreshSpec == Init /\ [][RefreshNext]_vars

----------------------------------------------------------------------------
(* What the claims about the scorer speak of, stated from the claims' words *)

Returned == ret.list
ReturnedCodes == {Returned[i].code : i \in 1..Len(Returned)}
CallReturned == call.made /\ ret.raised = ""
TakenSet == ToSet(call.taken)
Labels == ToSet(model.labels)
LabelIndex(code) == CHOOSE i \in 1..Len(model.labels) : model.labels[i] = code
ProbaOf(code) == model.proba[LabelIndex(code)]

\* an eligible candidate: a label that is an elective of the catalog, not
\* taken, with every prerequisite taken
Candidates ==
    {c \in Labels \cap courses :
        kind[c] = Elective /\ c \notin TakenSet /\ prereq[c] \subseteq TakenSet}

\* the tokens of a comma-separated string: its maximal comma-free pieces,
\* without the blanks around them, the empty ones left out
Pieces(s) ==
    {<<i, j>> \in (1..Len(s) + 1) \X (0..Len(s)) :
        /\ i <= j + 1
        /\ (i = 1 \/ s[i - 1] = ",")
        /\ (j = Len(s) \/ s[j + 1] = ",")
        /\ \A k \in i..j : s[k] # ","}
NonBlank(s, i, j) == {k \in i..j : s[k] # " "}
Tokens(s) ==
    {SubSeq(s, CHOOSE a \in NonBlank(s, pc[1], pc[2]) :
                   \A k \in NonBlank(s, pc[1], pc[2]) : a <= k,
               CHOOSE b \in NonBlank(s, pc[1], pc[2]) :
                   \A k \in NonBlank(s, pc[1], pc[2]) : b >= k) :
        pc \in {q \in Pieces(s) : NonBlank(s, q[1], q[2]) # {}}}

InterestTokens == Tokens(call.interests)
SharesTag(code) == Tokens(tags[code]) \cap InterestTokens # {}

\* the grades the claim averages for a candidate
RecordedPrereqs(code) == prereq[code] \cap DOMAIN call.grades
GradedCodes(code) ==
    IF RecordedPrereqs(code) # {} THEN RecordedPrereqs(code) ELSE DOMAIN call.grades
\* 0.75 + (A / 100) * 0.5 as a rational, 1 without any recorded grade
GradeFactor(code) ==
    LET G == GradedCodes(code)
    IN  IF G = {} THEN <<1, 1>>
        ELSE <<150 * Cardinality(G) + SumOver(call.grades, G), 200 * Cardinality(G)>>

RatMul(a, b) == <<a[1] * b[1], a[2] * b[2]>>

----------------------------------------------------------------------------
(* C1 *)

\* C1: no course code returned by recommend_for_profile is a member of the
\* taken-code set passed in.
C1_NoTakenCodeReturned ==
    CallReturned => ReturnedCodes \cap TakenSet = {}

\* a call that returned something and left out a taken elective label whose
\* prerequisites are all taken
C1_Witness ==
    /\ CallReturned
    /\ Returned # <<>>
    /\ \E c \in Labels \cap courses \cap TakenSet :
          kind[c] = Elective /\ prereq[c] \subseteq TakenSet

(* C2 *)

\* C2: for every returned code, the course's prerequisite set in the catalog
\* is a subset of the taken-code set passed in.
C2_PrereqsOfReturnedAreTaken ==
    CallReturned => \A c \in ReturnedCodes : prereq[c] \subseteq TakenSet

\* a returned course with a prerequisite, and an elective label left out with
\* one prerequisite taken and one missing
C2_Witness ==
    /\ CallReturned
    /\ \E c \in ReturnedCodes : Cardinality(prereq[c]) >= 1
    /\ \E c \in (Labels \cap courses) \ TakenSet :
          /\ kind[c] = Elective
          /\ prereq[c] \cap TakenSet # {}
          /\ ~(prereq[c] \subseteq TakenSet)

(* C3 *)

\* C3: the returned list is the top-K of the eligible candidates by final
\* score: scores are non-increasing from first to last, and no eligible
\* candidate left out has a final score strictly greater than a returned one.
C3_TopKByScore ==
    CallReturned =>
        /\ \A i \in 1..(Len(Returned) - 1) :
              RatLeq(Returned[i + 1].score, Returned[i].score)
        /\ ReturnedCodes \subseteq Candidates
        /\ \A c \in Candidates \ ReturnedCodes :
              LET left == ScoreOf(c, ProbaOf(c), InterestTokens, call.grades)
              IN  \A i \in 1..Len(Returned) : ~RatLess(Returned[i].score, left)

\* two returned codes in the opposite of their label order, with different
\* scores, and an eligible candidate left out
C3_Witness ==
    /\ CallReturned
    /\ Candidates \ ReturnedCodes # {}
    /\ \E i \in 1..(Len(Returned) - 1) :
          /\ RatLess(Returned[i + 1].score, Returned[i].score)
          /\ LabelIndex(Returned[i + 1].code) < LabelIndex(Returned[i].code)

(* C4 *)

\* C4 as stated: for every value of K the call returns at most K results, and
\* exactly min(K, number of eligible candidates).
C4_AtMostK_AnyK ==
    CallReturned =>
        /\ Len(Returned) <= call.top_k
        /\ Len(Returned) = Min(call.top_k, Cardinality(Candidates))

\* C4 amended: for every K >= 0 the call returns at most K results, and
\* exactly min(K, number of eligible candidates).
C4_AtMostK_NonNegativeK ==
    (CallReturned /\ call.top_k >= 0) =>
        /\ Len(Returned) <= call.top_k
        /\ Len(Returned) = Min(call.top_k, Cardinality(Candidates))

\* more eligible candidates than the K >= 1 asked for
C4_Witness ==
    /\ CallReturned
    /\ call.top_k >= 1
    /\ Cardinality(Candidates) > call.top_k
    /\ Len(Returned) = call.top_k

(* C5 *)

\* C5: a returned candidate's score carries the factor 1.15 exactly when its
\* tag set shares a tag with the student's interest set, and the factor 1.0
\* otherwise: score = p * bonus * grade factor.
C5_InterestBonusIffSharedTag ==
    CallReturned =>
        \A i \in 1..Len(Returned) :
            LET c == Returned[i].code
                bonus == IF SharesTag(c) THEN <<115, 100>> ELSE <<100, 100>>
            IN  RatEq(Returned[i].score,
                      RatMul(<<ProbaOf(c), 1>>, RatMul(bonus, GradeFactor(c))))

\* one returned course with the bonus and one without it, the latter with
\* tags of its own, for a student with interests
C5_Witness ==
    /\ CallReturned
    /\ \E c, d \in ReturnedCodes :
          /\ SharesTag(c)
          /\ ~SharesTag(d)
          /\ Tokens(tags[d]) # {}

(* C6 *)

\* C6: the grade factor of a candidate is 0.75 + (A/100)*0.5 with A the
\* average of the recorded grades over its prerequisites, or over all recorded
\* grades when no prerequisite has one, and 1.0 when nothing is recorded; it
\* lies in [0.75, 1.25]; and of two returned candidates with the same
\* probability and bonus, the one with the higher average has no lower score.
C6_GradeFactor ==
    CallReturned =>
        /\ \A i \in 1..Len(Returned) :
              LET c == Returned[i].code
                  f == GradeFactor(c)
                  w == InterestWeight(TagSet(tags[c]), TagSet(call.interests))
              IN  /\ RatEq(Returned[i].score,
                           RatMul(<<ProbaOf(c) * w, 100>>, f))
                  /\ RatLeq(<<3, 4>>, f) /\ RatLeq(f, <<5, 4>>)
        /\ \A i, j \in 1..Len(Returned) :
              LET c == Returned[i].code
                  d == Returned[j].code
              IN  (/\ ProbaOf(c) = ProbaOf(d)
                   /\ SharesTag(c) = SharesTag(d)
                   /\ GradedCodes(c) # {} /\ GradedCodes(d) # {}
                   /\ RatLeq(<<SumOver(call.grades, GradedCodes(c)),
                               Cardinality(GradedCodes(c))>>,
                             <<SumOver(call.grades, GradedCodes(d)),
                               Cardinality(GradedCodes(d))>>))
                  => RatLeq(Returned[i].score, Returned[j].score)

\* one returned course weighted by its prerequisites' grades and one by the
\* overall average, with different factors
C6_Witness ==
    /\ CallReturned
    /\ \E c, d \in ReturnedCodes :
          /\ RecordedPrereqs(c) # {}
          /\ RecordedPrereqs(d) = {}
          /\ DOMAIN call.grades # {}
          /\ ~RatEq(GradeFactor(c), GradeFactor(d))

(* C7 *)

\* C7: every returned code is a class label of the loaded model and the code
\* of a catalog course of kind elective.
C7_ReturnedAreElectiveLabels ==
    CallReturned =>
        \A c \in ReturnedCodes :
            c \in Labels /\ c \in courses /\ kind[c] = Elective

\* something is returned while a mandatory label with nothing missing and a
\* label without a course are left out
C7_Witness ==
    /\ CallReturned
    /\ Returned # <<>>
    /\ \E c \in (Labels \cap courses) \ TakenSet :
          kind[c] = Mandatory /\ prereq[c] \subseteq TakenSet
    /\ Labels \ courses # {}

(* C8 *)

\* C8: two returned candidates with equal final scores appear in the order of
\* the model's class labels.
C8_TiesInLabelOrder ==
    CallReturned =>
        \A i, j \in 1..Len(Returned) :
            (i < j /\ RatEq(Returned[i].score, Returned[j].score))
                => LabelIndex(Returned[i].code) < LabelIndex(Returned[j].code)

\* a tie behind a candidate that the sort moved to the front
C8_Witness ==
    /\ CallReturned
    /\ Len(Returned) >= 3
    /\ RatLess(Returned[2].score, Returned[1].score)
    /\ LabelIndex(Returned[2].code) < LabelIndex(Returned[1].code)
    /\ RatEq(Returned[2].score, Returned[3].score)

----------------------------------------------------------------------------
(* C9 *)

RecommendationRoutes == {"student_recommendations", "teacher_student_recommendations"}

\* a step that serves a request of one of the routes to a user the route admits
Served(routes) ==
    /\ resp' # resp
    /\ resp'.route \in routes
    /\ resp'.outcome \notin {"login_redirect", "not_found"}

\* C9: a recommendations request served while the model artifact does not
\* exist ends, on both routes, with a rendered page carrying the message that
\* the model must be trained, not with an unhandled error, and leaves the
\* stored Recommendation records unchanged.
C9_MissingModelGivesMessage ==
    [][(Served(RecommendationRoutes) /\ ~model.exists)
          => (/\ resp'.outcome = "rendered"
              /\ resp'.detail = "model_not_trained"
              /\ recs' = recs)]_vars

(* C10 *)

\* C10: a course-selection POST in which a selected course has a prerequisite
\* that is not selected is answered with a form error listing, for each such
\* course, its missing prerequisite codes, and leaves the stored enrollments
\* unchanged.
C10_MissingPrereqsRejectedWithList ==
    [][(/\ Served({"student_courses"})
        /\ resp'.selection \subseteq courses
        /\ \E c \in resp'.selection : ~(prereq[c] \subseteq resp'.selection))
          => (/\ resp'.outcome = "form_error"
              /\ resp'.detail = InvalidSelections(resp'.selection, prereq)
              /\ enrollments' = enrollments)]_vars

----------------------------------------------------------------------------
(* C11 *)

\* every completed course of every student has its current prerequisites in
\* the student's completed set
PrereqClosed ==
    \A e \in enrollments :
        e.status = "completed" => prereq[e.course] \subseteq CompletedCodes(e.student)

\* a step of a course-selection submission, a teacher course edit or a
\* catalog import
SubmissionEditOrImport ==
    \/ \E sel \in SubmittedSelections : StudentCourses("stu", sel)
    \/ \E f \in CourseForms : TeacherCourseEdit("tea", f)
    \/ \E f \in CatalogFiles : AdminImportCatalog("adm", "POST", f)
    \/ \E w \in BOOLEAN, f \in CatalogFiles : ImportCoursesCommand(w, f)

\* C11: no course-selection submission, teacher course edit or catalog import
\* leads from a state in which every completed course of a student has all
\* its current prerequisites in that student's completed set to a state in
\* which one has not.
C11_CompletedSetsStayPrereqClosed ==
    [][(PrereqClosed /\ SubmissionEditOrImport) => PrereqClosed']_vars

(* C12 *)

----------------------------------------------------------------------------
(* C13 *)

\* urls.py: the routes of the three areas
StudentArea ==
    {"student_dashboard", "student_profile", "student_courses",
     "student_recommendations"}
TeacherArea ==
    {"teacher_dashboard", "teacher_courses", "teacher_course_detail",
     "teacher_course_edit", "teacher_students", "teacher_student_recommendations"}
AdminArea == {"admin_dashboard", "admin_train_model", "admin_import_catalog"}

InGroup(user, names) == UserGroups[user] \cap names # {}

\* the users that the claim lets into the area of a route
RoleAllows(route, user) ==
    /\ user \in Authenticated
    /\ \/ user \in Superusers
       \/ route \in StudentArea /\ InGroup(user, {"Student", "Admin"})
       \/ route \in TeacherArea /\ InGroup(user, {"Teacher", "Admin"})
       \/ route \in AdminArea /\ InGroup(user, {"Admin"})

\* C13: the body of a student-area view runs only for an authenticated user
\* who is superuser or in group Student or Admin, that of a teacher-area view
\* only for superuser or group Teacher or Admin, that of an admin-area view
\* only for superuser or group Admin; the request of any other user is
\* answered with the redirect to the login page, which depends on no stored
\* state, and changes nothing that is stored.
C13_RoutesAreRoleGated ==
    [][LET r == resp'
       IN  ~RoleAllows(r.route, r.user)
              => /\ r = Response(r.route, r.user, r.method, r.selection,
                                 "login_redirect", <<>>)
                 /\ UNCHANGED <<catalogVars, model, profiles, interests,
                                enrollments, recs, data_files>>]_vars

\* a user without a group has just been turned away from the catalog import
\* while the superuser, the teacher and the admin have been let in: courses,
\* a model and the superuser's profile exist
C13_Witness ==
    /\ resp.route = "admin_import_catalog" /\ resp.method = "POST"
    /\ resp.user = "guest" /\ resp.outcome = "login_redirect"
    /\ HasProfile("root") /\ HasProfile("adm") /\ ~HasProfile("tea")
    /\ {"A", "B"} \subseteq courses
    /\ model.exists

(* C16 *)

\* C16: after every request each user has at most one StudentProfile; a
\* profile is created only for a user who has none, by that user's request
\* to a student-area route, and the profile of a user who has one is left
\* as it is by every request but that user's own profile form.
C16_OneProfilePerUser ==
    [][\A u \in Users :
          /\ profiles'[u] <= 1
          /\ profiles'[u] # profiles[u]
                => /\ ~HasProfile(u)
                   /\ resp'.user = u /\ resp'.route \in StudentArea
          /\ (HasProfile(u) /\ interests'[u] # interests[u])
                => /\ resp'.user = u /\ resp'.route = "student_profile"
                   /\ resp'.method = "POST"]_vars

\* the student saved interests in the profile form and then requested
\* another student-area page; the admin has a profile too
C16_Witness ==
    /\ profiles["stu"] = 1 /\ interests["stu"] = StrAi
    /\ resp.user = "stu" /\ resp.route = "student_courses"
    /\ profiles["adm"] = 1

----------------------------------------------------------------------------
(* C14 *)

\* C14: a call of recommend_for_profile, whether it returns a list or raises
\* for a missing model, leaves the courses with their kinds, tags and
\* prerequisite edges, the student profiles, the enrollments and the stored
\* recommendations unchanged.
C14_CallStoresNothing ==
    [][(~call.made /\ call'.made)
          => UNCHANGED <<courses, kind, tags, prereq, profiles, interests,
                         enrollments, recs>>]_vars

\* the call returned a list that differs from the stored recommendations of
\* the student, whose enrollment is stored too
C14_Witness ==
    /\ CallReturned /\ Returned # <<>>
    /\ recs["stu"] # <<>> /\ recs["stu"] # Returned
    /\ enrollments # {} /\ profiles["stu"] = 1

(* C15 *)

Reverse(s) == [i \in 1..Len(s) |-> s[Len(s) + 1 - i]]

\* C15: what a call returned or raised is what recommend_for_profile gives,
\* for the same model, catalog, interests, grades and top_k, on the taken
\* list in reverse order and on the sorted list of the taken set without
\* repetitions: the same codes in the same order with the same scores.
C15_ResultIndependentOfTakenOrder ==
    call.made =>
        /\ ret = recommend_for_profile(call.interests, Reverse(call.taken),
                                       call.grades, call.top_k)
        /\ ret = recommend_for_profile(call.interests,
                                       SortCodes(ToSet(call.taken)),
                                       call.grades, call.top_k)

\* a list was returned for a taken list that reads differently in reverse
C15_Witness ==
    /\ CallReturned /\ Returned # <<>>
    /\ Len(call.taken) >= 2
    /\ Reverse(call.taken) # call.taken

----------------------------------------------------------------------------
(* C17 *)

\* the codes of the rows of a catalog file
FileCodes(file) == {file[i].code : i \in 1..Len(file)}

\* C17: a run of import_courses with --wipe leaves exactly the courses of the
\* catalog file in the Course table, and no enrollment and no recommendation
\* stored before the run is stored after it, also not one for a course code
\* that the file holds.
C17_WipeRemovesCoursesAndStudentData ==
    [][\A f \in CatalogFiles :
          ImportCoursesCommand(TRUE, f)
             => /\ courses' = FileCodes(f)
                /\ enrollments' \cap enrollments = {}
                /\ \A s \in Users :
                      ToSet(recs'[s]) \cap ToSet(recs[s]) = {}]_vars

\* import_courses --wipe has just run on a catalog file with the codes B and
\* C while students have profiles: the table holds B and C and no student
\* data is left
C17_Witness ==
    /\ resp.route = "import_courses" /\ resp.method = "--wipe"
    /\ courses = {"B", "C"}
    /\ HasProfile("stu") /\ HasProfile("adm")
    /\ enrollments = {}
    /\ recs["stu"] = <<>>

----------------------------------------------------------------------------
(* C19 *)

\* the enrollments of a student
EnrollmentsOf(table, student) == {e \in table : e.student = student}

\* C19: after a course-selection POST whose selection passes validation
\* (every selected code is a course and has its prerequisites selected) the
\* enrollments of the student are one completed enrollment per selected
\* course and nothing else, and the enrollments of every other student are
\* as before.
C19_EnrollmentsBecomeTheSelection ==
    [][(/\ Served({"student_courses"})
        /\ resp'.method = "POST"
        /\ resp'.selection \subseteq courses
        /\ \A c \in resp'.selection : prereq[c] \subseteq resp'.selection)
          => (/\ EnrollmentsOf(enrollments', resp'.user)
                   = {[student |-> resp'.user, course |-> c, status |-> "completed"] :
                         c \in resp'.selection}
              /\ \A o \in Users \ {resp'.user} :
                    EnrollmentsOf(enrollments', o) = EnrollmentsOf(enrollments, o))]_vars

(* C20 *)

\* the stored recommendations of the student become the list that the scorer
\* returns for the student's interests and completed courses, and those of
\* the other students stay
RefreshedTo(student) ==
    LET returned == recommend_for_profile(interests[student],
                                          SortCodes(CompletedCodes(student)),
                                          EmptyGrades, 5).list
    IN  /\ recs'[student] = returned
        /\ Len(recs'[student]) <= 5
        /\ \A i, j \in 1..Len(recs'[student]) :
              i # j => recs'[student][i].code # recs'[student][j].code
        /\ \A o \in Users \ {student} : recs'[o] = recs[o]

\* C20: a recommendations request of a user of the area, for a student with
\* a profile and with a trained model, on either route, leaves as the stored
\* Recommendation records of that student exactly the scorer's returned list
\* (at most 5, pairwise distinct courses, no older record) and leaves the
\* records of every other student unchanged.
C20_RefreshStoresTheReturnedList ==
    [][/\ \A u \in Accounts :
            (/\ StudentRecommendations(u)
             /\ RoleAllows("student_recommendations", u)
             /\ model.exists)
               => RefreshedTo(u)
       /\ \A u \in Accounts, s \in Accounts :
            (/\ TeacherStudentRecommendations(u, s)
             /\ RoleAllows("teacher_student_recommendations", u)
             /\ HasProfile(s)
             /\ model.exists)
               => RefreshedTo(s)]_vars

----------------------------------------------------------------------------
(* C18 *)

AllFilesExist(files) ==
    files.current.exists /\ files.new.exists /\ files.enroll.exists

\* C18: a call of ensure_student_data on a data directory with all three
\* files returns their loaded content with generated = False and writes
\* nothing; a call returns generated = True only when a file is missing, and
\* then it has saved all three files; and a call right after another call
\* returns generated = False with the data that the call before returned.
C18_StudentDataIsStable ==
    [][ensured'.calls = ensured.calls + 1
          => /\ AllFilesExist(data_files)
                  => /\ ~ensured'.generated /\ ~ensured'.wrote
                     /\ data_files' = data_files
                     /\ ensured'.current = read_csv(data_files.current)
                     /\ ensured'.new = read_csv(data_files.new)
                     /\ ensured'.enroll = read_csv(data_files.enroll)
             /\ ensured'.generated
                  => /\ ~AllFilesExist(data_files)
                     /\ ensured'.wrote /\ AllFilesExist(data_files')
             /\ ensured.calls >= 1
                  => /\ ~ensured'.generated
                     /\ ensured'.current = ensured.current
                     /\ ensured'.new = ensured.new
                     /\ ensured'.enroll = ensured.enroll]_vars

----------------------------------------------------------------------------
(* C21 *)

\* no stored recommendation of a student is for a course of the student's
\* completed enrollments
NoRecommendationOfCompleted ==
    \A s \in Users : \A i \in 1..Len(recs[s]) :
        recs[s][i].code \notin CompletedCodes(s)

\* a step of a course-selection submission or of a recommendations refresh
SubmissionOrRefresh ==
    \/ \E sel \in SUBSET Codes : StudentCourses("stu", sel)
    \/ StudentRecommendations("stu")
    \/ TeacherStudentRecommendations("tea", "stu")

----------------------------------------------------------------------------
(* C22 *)

\* every request is answered
AllAnswered == \A r \in Requests : inflight[r].pc \in {"done", "failed"}

\* C22: when two valid course-selection submissions of one student have
\* both been handled, in whatever order their steps were taken, the
\* enrollments of the student are one completed enrollment per course of one
\* of the two selections, and they hold the prerequisites of each of their
\* courses.
C22_InterleavedSubmissionsEndAsOneSelection ==
    AllAnswered =>
        LET student == inflight[1].user
            final == EnrollmentsOf(enrollments, student)
        IN  /\ \E r \in Requests :
                  final = CompletedRows(student, inflight[r].selection)
            /\ \A e \in final : prereq[e.course] \subseteq {x.course : x \in final}

----------------------------------------------------------------------------
(* C23 *)

\* C23: for every user, the flags is_student, is_teacher and is_admin that
\* role_flags gives to the templates are true exactly when is_student,
\* is_teacher and is_admin of the views admit the user.
C23_RoleFlagsAgreeWithAccessPredicates ==
    \A u \in Users :
        role_flags(u) = [is_student |-> is_student(u),
                         is_teacher |-> is_teacher(u),
                         is_admin |-> is_admin(u)]

----------------------------------------------------------------------------
(* C24 *)

\* the codes reached from a set of codes along at most n prerequisite edges
RECURSIVE PrereqClosure(_, _)
PrereqClosure(S, n) ==
    IF n = 0 THEN S
    ELSE PrereqClosure(S \cup UNION {prereq[x] : x \in S \cap Codes}, n - 1)

\* the course is a prerequisite of itself, directly or through other courses
OnCycle(code) ==
    code \in Codes /\ code \in PrereqClosure(prereq[code], Cardinality(Codes))

\* every course of the set has its prerequisites in the set
ClosedUnderPrereqs(T) == \A t \in T \cap courses : prereq[t] \subseteq T

\* C24: a course edit whose prerequisites are existing courses is saved with
\* those prerequisites, and an import gives each course of the file the
\* prerequisites that the file lists among its courses, whether or not
\* that makes a course a prerequisite of itself; and a call of
\* recommend_for_profile with a taken list that is closed under
\* prerequisites returns no course that lies on a prerequisite cycle.
C24_CyclesAcceptedAndNeverRecommended ==
    [][/\ \A f \in CourseForms :
            (TeacherCourseEdit("tea", f) /\ f.prerequisites \subseteq courses)
               => (resp'.outcome = "redirect" /\ prereq'[f.code] = f.prerequisites)
       /\ \A w \in BOOLEAN, f \in CatalogFiles \cup {CatalogLoop} :
            ImportCoursesCommand(w, f)
               => \A i \in 1..Len(LoadedCatalogs[f]) :
                     LET row == LastRow(LoadedCatalogs[f], LoadedCatalogs[f][i].code)
                     IN  prereq'[row.code] = ToSet(row.prerequisites) \cap FileCodes(f)
       /\ (call' # call /\ ret'.raised = "" /\ ClosedUnderPrereqs(ToSet(call'.taken)))
               => \A i \in 1..Len(ret'.list) : ~OnCycle(ret'.list[i].code)]_vars

\* the scorer was called, with a taken list closed under prerequisites, on a
\* catalog in which an elective label of the model lies on a cycle through
\* another course, and on one in which an elective label lists itself and
\* is not taken
C24_Witness ==
    /\ call.made /\ ret.raised = ""
    /\ ClosedUnderPrereqs(ToSet(call.taken))
    /\ \E c \in courses \cap ToSet(model.labels) :
          /\ kind[c] = Elective /\ OnCycle(c)
          /\ \/ c \notin prereq[c] /\ c \in ToSet(call.taken)
             \/ c \in prereq[c] /\ c \notin ToSet(call.taken)

====
